---- MODULE Spec2Model ----
(***************************************************************************)
(* A model of the pavo-traits crate: the length-tolerant bulk copy of      *)
(* slice.rs, the representation conversions and inner accessors of         *)
(* wrap.rs, the pointer views and their derivation macros of convert.rs,  *)
(* and the alignment helpers of num.rs.                                    *)
(*                                                                         *)
(* The crate has no shared runtime state: each component is a family of    *)
(* operations on the values the caller hands in.  Each component therefore *)
(* has a specification of its own (SpecSlice, SpecConv, SpecDerive,        *)
(* SpecPtr, SpecNum) in which the caller is the environment that picks the *)
(* inputs and the actions are the crate's operations; the variables of the *)
(* other components stay at their idle values.                             *)
(***************************************************************************)
EXTENDS Integers, Sequences, FiniteSets, Bags, TLC

VARIABLES
    \* ---- slice.rs: the bulk copy
    dst,        \* the destination buffer (self: &mut [T])
    dst0,       \* ghost: the destination as it was before the first copy
    src,        \* the source buffer of the last call, as it is after the call
    src0,       \* ghost: the source buffer of the last call, as it was passed
    maxSrc,     \* ghost: the greatest source length used so far
    sres,       \* the last call: [op |-> "none"|"clone"|"copy", err |-> "none"|"panic"|"ub"]
    \* ---- wrap.rs: From / Into
    chain,      \* the values of the current conversion chain, oldest first
    \* ---- convert.rs / wrap.rs: the derivation macros
    impls,      \* the bag of impl items the invocations so far have emitted
    last,       \* the last macro invocation and the items it emitted
    \* ---- convert.rs / wrap.rs: pointer views and inner access
    mem,        \* the memory: a value for every address
    w,          \* the wrapper value: its type and the address it lives at
    ret,        \* what the last operation returned
    pre,        \* ghost: the wrapper's cells before the last operation
    lastW,      \* ghost: the most recent write into the wrapper
    seen,       \* for each cell of the wrapper, the values a read may yield
    \* ---- num.rs: alignment
    num         \* the last alignment call: its type, build, operands and result

sliceVars  == <<dst, dst0, src, src0, maxSrc, sres>>
convVars   == <<chain>>
deriveVars == <<impls, last>>
ptrVars    == <<mem, w, ret, pre, lastW, seen>>
numVars    == <<num>>
vars       == <<dst, dst0, src, src0, maxSrc, sres, chain, impls, last,
                mem, w, ret, pre, lastW, seen, num>>

Min(a, b) == IF a <= b THEN a ELSE b
Max(a, b) == IF a >= b THEN a ELSE b

SeqsUpTo(S, n) == UNION {[1..k -> S] : k \in 0..n}

(***************************************************************************)
(*                       slice.rs: the bulk copy                           *)
(***************************************************************************)

\* The longest buffer the caller hands in.
MaxLen == 3

\* The elements of a fresh destination and of a source (as in the tests,
\* where the destination starts as 1..4 and the sources hold 5..9).
DstVals == {1, 2}
SrcVals == {5, 6}
ElemVals == DstVals \cup SrcVals

\* T::clone of a derive(Clone) element: an equal element.
CloneElem(x) == x

\* let len = self.len().min(src.len());
FlexLenOfSelf(self, s) == Len(self)
FlexLen(self, s) == Min(Len(self), Len(s))

\* for i in 0..len { self[i].clone_from(&src[i]); }  from index i (0-based)
\* on; both indexings are bounds-checked and panic out of range.
RECURSIVE CloneLoop(_, _, _, _)
CloneLoop(self, s, i, len) ==
    IF i >= len
    THEN [self |-> self, src |-> s, err |-> "none"]
    ELSE IF i + 1 > Len(self) \/ i + 1 > Len(s)
         THEN [self |-> self, src |-> s, err |-> "panic"]
         ELSE CloneLoop([self EXCEPT ![i + 1] = CloneElem(s[i + 1])], s, i + 1, len)

\* A loop that starts one element late.
CloneFromSliceFlexLate(self, s) == CloneLoop(self, s, 1, FlexLen(self, s))
\* <[T] as CloneFromSliceFlex>::clone_from_slice_flex
CloneFromSliceFlex(self, s) == CloneLoop(self, s, 0, FlexLen(self, s))

\* std::ptr::copy_nonoverlapping(src, dst, count): the block copy of count
\* elements.  Reading past the source or writing past the destination is
\* undefined behaviour: any content of the destination may result.
CopyNonoverlapping(s, d, count) ==
    IF count <= Len(s) /\ count <= Len(d)
    THEN {[self |-> [i \in 1..Len(d) |-> IF i <= count THEN s[i] ELSE d[i]],
           src |-> s, err |-> "none"]}
    ELSE {[self |-> x, src |-> s, err |-> "ub"] : x \in [1..Len(d) -> ElemVals]}

\* <[T] as CopyFromSliceFlex>::copy_from_slice_flex: the set of outcomes.
CopyFromSliceFlex(self, s) == CopyNonoverlapping(s, self, FlexLen(self, s))

\* The caller's sources.
Sources == SeqsUpTo(SrcVals, MaxLen)

SliceDone(op, out, s) ==
    /\ dst' = out.self
    /\ src' = out.src
    /\ src0' = s
    /\ maxSrc' = Max(maxSrc, Len(s))
    /\ sres' = [op |-> op, err |-> out.err]
    /\ UNCHANGED <<dst0, convVars, deriveVars, ptrVars, numVars>>

\* dst.clone_from_slice_flex(&s)
CloneCall ==
    \E s \in Sources :
        /\ sres.err = "none"
        /\ SliceDone("clone", CloneFromSliceFlex(dst, s), s)

\* dst.copy_from_slice_flex(&s)
CopyCall ==
    \E s \in Sources :
        /\ sres.err = "none"
        /\ \E out \in CopyFromSliceFlex(dst, s) : SliceDone("copy", out, s)

IdleSlice ==
    /\ dst = <<>> /\ dst0 = <<>> /\ src = <<>> /\ src0 = <<>>
    /\ maxSrc = 0
    /\ sres = [op |-> "none", err |-> "none"]

IdleConv == chain = <<>>

IdleDerive ==
    /\ impls = EmptyBag
    /\ last = [macro |-> "none", args |-> <<>>, emitted |-> <<>>, n |-> 0]

IdlePtr ==
    /\ mem = <<>>
    /\ w = [ty |-> "none", base |-> 0]
    /\ ret = [op |-> "none"]
    /\ pre = <<>>
    /\ lastW = [kind |-> "none"]
    /\ seen = <<>>

IdleNum == num = [op |-> "none"]

InitSlice ==
    /\ dst \in SeqsUpTo(DstVals, MaxLen)
    /\ dst0 = dst
    /\ src = <<>> /\ src0 = <<>>
    /\ maxSrc = 0
    /\ sres = [op |-> "none", err |-> "none"]
    /\ IdleConv /\ IdleDerive /\ IdlePtr /\ IdleNum

NextSlice == CloneCall \/ CopyCall

SpecSlice == InitSlice /\ [][NextSlice]_vars

\* C1: after either bulk copy, of buffers of any lengths, the call has
\* completed without a panic or undefined behaviour and the destination
\* agrees with the source on every index below min(len(dst), len(src)).
C1_PrefixCopied ==
    /\ sres.err = "none"
    /\ sres.op # "none" =>
           \A i \in 1..Min(Len(dst), Len(src0)) : dst[i] = src0[i]

\* A copy from a source longer than a two-element destination has filled
\* the whole destination with the source's first two elements.
C1_Witness ==
    /\ sres.op = "copy"
    /\ Len(src0) > Len(dst)
    /\ Len(dst) = 2
    /\ dst = <<src0[1], src0[2]>>

\* C2: after any sequence of bulk copies the destination has its initial
\* length, every element at an index at or beyond the longest source used
\* so far has its initial value, and the source is as it was passed.
C2_Frame ==
    /\ Len(dst) = Len(dst0)
    /\ \A i \in 1..Len(dst) : i > maxSrc => dst[i] = dst0[i]
    /\ src = src0

\* A three-element destination has taken a two-element source and then, by
\* the cloning copy, a one-element source: its third element is initial.
C2_Witness ==
    /\ sres.op = "clone"
    /\ Len(dst) = 3
    /\ maxSrc = 2
    /\ Len(src0) = 1
    /\ dst[1] = src0[1]
    /\ dst[2] \in SrcVals
    /\ dst[3] = dst0[3]

(***************************************************************************)
(*                     wrap.rs: From / Into conversions                    *)
(***************************************************************************)

\* The greatest value of a field of the inner struct, and the longest chain
\* of conversions applied to one value.
MaxField == 1
MaxChain == 3

\* ffi::DATA_S { a, b, c, d } of the doc example.
InnerStructs == [a : 0..MaxField, b : 0..MaxField, c : 0..MaxField, d : 0..MaxField]

\* From<$Inner> for $Wrapper that builds the wrapper's default instead.
StructFromDefault(val) == [inner |-> [a |-> 0, b |-> 0, c |-> 0, d |-> 0]]
\* impl_from_into_for_struct: fn from(val) -> Self { Self { inner: val } }
StructFrom(val) == [inner |-> val]
\* impl_from_into_for_struct: fn into(self) -> $Inner { self.inner }
StructInto(self) == self.inner

\* The variants of the two #[repr(u32)] enums of the doc example, in
\* declaration order: the k-th declared variant has discriminant k - 1.
Variants(ty) ==
    IF ty = "Mode" THEN <<"A", "B", "C">>
    ELSE <<"MODE_E_A", "MODE_E_B", "MODE_E_C">>

\* The bit pattern (the u32 discriminant) of variant v of enum ty.
Discriminant(ty, v) ==
    (CHOOSE k \in 1..Len(Variants(ty)) : Variants(ty)[k] = v) - 1

\* A conversion that goes through the next discriminant instead.
TransmuteShifted(from, to, v) ==
    Variants(to)[((Discriminant(from, v) + 1) % Len(Variants(to))) + 1]
\* std::mem::transmute::<from, to>(v): the value of `to` with v's bit
\* pattern; a pattern that is no discriminant of `to` is undefined behaviour.
Transmute(from, to, v) ==
    LET bits == Discriminant(from, v)
        hits == {k \in 1..Len(Variants(to)) : k - 1 = bits}
    IN  IF hits = {} THEN "UB" ELSE Variants(to)[CHOOSE k \in hits : TRUE]

\* impl_from_into_for_enum: From<$Inner> for $Wrapper
EnumFrom(val) == Transmute("MODE_E", "Mode", val)
\* impl_from_into_for_enum: Into<$Inner> for $Wrapper
EnumInto(self) == Transmute("Mode", "MODE_E", self)

Tagged(ty, val) == [ty |-> ty, val |-> val]

\* Every value a chain can start from: an inner value or a wrapper.
ChainStarts ==
    {Tagged("DATA_S", v) : v \in InnerStructs}
    \cup {Tagged("Data", [inner |-> v]) : v \in InnerStructs}
    \cup {Tagged("MODE_E", Variants("MODE_E")[k]) : k \in 1..3}
    \cup {Tagged("Mode", Variants("Mode")[k]) : k \in 1..3}

Cur == chain[Len(chain)]

Convert(ty, val) ==
    /\ chain' = Append(chain, Tagged(ty, val))
    /\ UNCHANGED <<sliceVars, deriveVars, ptrVars, numVars>>

\* Data::from(v)
StructFromCall ==
    /\ Len(chain) <= MaxChain /\ Cur.ty = "DATA_S"
    /\ Convert("Data", StructFrom(Cur.val))

\* d.into()
StructIntoCall ==
    /\ Len(chain) <= MaxChain /\ Cur.ty = "Data"
    /\ Convert("DATA_S", StructInto(Cur.val))

\* Mode::from(m)
EnumFromCall ==
    /\ Len(chain) <= MaxChain /\ Cur.ty = "MODE_E"
    /\ Convert("Mode", EnumFrom(Cur.val))

\* m.into()
EnumIntoCall ==
    /\ Len(chain) <= MaxChain /\ Cur.ty = "Mode"
    /\ Convert("MODE_E", EnumInto(Cur.val))

InitConv ==
    /\ chain \in {<<v>> : v \in ChainStarts}
    /\ IdleSlice /\ IdleDerive /\ IdlePtr /\ IdleNum

NextConv == StructFromCall \/ StructIntoCall \/ EnumFromCall \/ EnumIntoCall

SpecConv == InitConv /\ [][NextConv]_vars

IsStruct(x) == x.ty \in {"Data", "DATA_S"}
IsEnum(x) == x.ty \in {"Mode", "MODE_E"}

\* C3: field-extraction conversion round-trips in both directions: a value
\* converted to the other type and back is the value it was, whether it
\* started as an inner value or as a wrapper.
C3_StructRoundTrip ==
    \A i \in 1..Len(chain) :
        IsStruct(chain[i]) /\ i + 2 <= Len(chain) => chain[i + 2] = chain[i]

\* An inner value with unequal fields went to a wrapper holding it and back;
\* and the chain went on to the wrapper again.
C3_Witness ==
    /\ Len(chain) = 4
    /\ chain[1].ty = "DATA_S"
    /\ chain[1].val.a # chain[1].val.b
    /\ chain[2] = Tagged("Data", [inner |-> chain[1].val])
    /\ chain[3] = chain[1]
    /\ chain[4] = chain[2]

\* C4: bit-reinterpretation between the two three-variant enums keeps the
\* ordinal in both directions (the k-th variant goes to the k-th variant)
\* and round-trips.
C4_EnumRoundTrip ==
    \A i \in 1..Len(chain) :
        IsEnum(chain[i]) =>
            /\ chain[i].val \in {Variants(chain[i].ty)[k] : k \in 1..3}
            /\ i + 1 <= Len(chain) =>
                   /\ chain[i + 1].ty # chain[i].ty
                   /\ Discriminant(chain[i + 1].ty, chain[i + 1].val)
                          = Discriminant(chain[i].ty, chain[i].val)
            /\ i + 2 <= Len(chain) => chain[i + 2] = chain[i]

\* The inner enum's third variant went to the wrapper's third variant and
\* back.
C4_Witness ==
    /\ Len(chain) >= 3
    /\ chain[1] = Tagged("MODE_E", "MODE_E_C")
    /\ chain[2] = Tagged("Mode", "C")
    /\ chain[3] = chain[1]

(***************************************************************************)
(*            convert.rs / wrap.rs: the derivation macros                  *)
(*                                                                         *)
(* A macro invocation is its name and its arguments (a sequence of         *)
(* tokens); its expansion is the sequence of impl items it emits, in       *)
(* order.  An item is `impl trait<param> for self`, with the kind of body  *)
(* its method has.                                                         *)
(***************************************************************************)

\* The most macro invocations in one crate.
MaxInvocations == 2

Item(trait, self, param, kind, field) ==
    [trait |-> trait, self |-> self, param |-> param,
     body |-> [kind |-> kind, field |-> field]]

\* macro_rules! impl_as_ref
ImplAsRef(args) ==
    IF Len(args) = 1 THEN
        \* fn as_ref(&self) -> &$Type { self }
        <<Item("AsRef", args[1], args[1], "self", "")>>
    ELSE IF Len(args) = 2 THEN
        \* fn as_ref(&self) -> $Target { self as &$Target }
        <<Item("AsRef", args[1], args[2], "cast_by_value", "")>>
    ELSE IF Len(args) = 3 THEN
        \* fn as_ref(&self) -> &$Target { &self.$Expr }
        <<Item("AsRef", args[1], args[2], "field", args[3])>>
    ELSE <<>>

\* macro_rules! impl_as_mut
ImplAsMut(args) ==
    IF Len(args) = 1 THEN
        <<Item("AsMut", args[1], args[1], "self", "")>>
    ELSE IF Len(args) = 2 THEN
        \* unsafe { std::mem::transmute::<&mut $Type, &mut $Target>(self) }
        <<Item("AsMut", args[1], args[2], "transmute", "")>>
    ELSE IF Len(args) = 3 THEN
        <<Item("AsMut", args[1], args[2], "field", args[3])>>
    ELSE <<>>

\* macro_rules! impl_as_mut_and_ref
ImplAsMutAndRef(args) == ImplAsMut(args) \o ImplAsRef(args)

\* macro_rules! impl_as_ptr: the trait's default body in every form
ImplAsPtr(args) ==
    IF Len(args) = 1 THEN
        <<Item("AsPtr", args[1], args[1], "default", "")>>
    ELSE IF Len(args) \in {2, 3} THEN
        \* the three-token form is impl_as_ptr!($Type, $Target)
        <<Item("AsPtr", args[1], args[2], "default", "")>>
    ELSE <<>>

\* macro_rules! impl_as_ptr_mut
ImplAsPtrMut(args) ==
    IF Len(args) = 1 THEN
        <<Item("AsPtrMut", args[1], args[1], "default", "")>>
    ELSE IF Len(args) = 2 THEN
        <<Item("AsPtrMut", args[1], args[2], "default", "")>>
    ELSE IF Len(args) = 3 THEN
        \* the three-token form is impl_as_mut!($Type, $Target)
        ImplAsMut(<<args[1], args[2]>>)
    ELSE <<>>

\* macro_rules! impl_as_bundle
ImplAsBundle(args) ==
    IF args = <<>> THEN <<>>
    ELSE ImplAsRef(args) \o ImplAsMut(args) \o ImplAsPtr(args) \o ImplAsPtrMut(args)

\* macro_rules! impl_as_bundle_many: the four one-token forms per type
RECURSIVE ImplAsBundleMany(_)
ImplAsBundleMany(types) ==
    IF types = <<>> THEN <<>>
    ELSE ImplAsRef(<<Head(types)>>) \o ImplAsMut(<<Head(types)>>)
         \o ImplAsPtr(<<Head(types)>>) \o ImplAsPtrMut(<<Head(types)>>)
         \o ImplAsBundleMany(Tail(types))

\* macro_rules! impl_from_into_for_enum ($Wrapper, $Inner)
ImplFromIntoForEnum(args) ==
    <<Item("From", args[1], args[2], "transmute", ""),
      Item("Into", args[1], args[2], "transmute", "")>>

\* macro_rules! impl_from_into_for_struct ($Wrapper, $Inner)
ImplFromIntoForStruct(args) ==
    <<Item("From", args[1], args[2], "field", "inner"),
      Item("Into", args[1], args[2], "field", "inner")>>

\* macro_rules! impl_inner_copy ($Wrapper, $Inner)
ImplInnerCopy(args) == <<Item("InnerCopy", args[1], args[2], "field", "inner")>>

\* macro_rules! impl_inner_refer ($Wrapper, $Inner)
ImplInnerRefer(args) == <<Item("InnerRefer", args[1], args[2], "field", "inner")>>

\* A wrapper-struct derivation that names the field to impl_as_ptr_mut too.
ImplStructWrapperNamingField(args) ==
    ImplAsRef(<<args[1], args[2], "inner">>)
    \o ImplAsPtr(<<args[1], args[2]>>)
    \o ImplAsPtrMut(<<args[1], args[2], "inner">>)
    \o ImplFromIntoForStruct(args)
    \o ImplInnerRefer(args)
\* macro_rules! impl_struct_wrapper ($Wrapper, $Inner)
ImplStructWrapper(args) ==
    ImplAsRef(<<args[1], args[2], "inner">>)
    \o ImplAsPtr(<<args[1], args[2]>>)
    \o ImplAsPtrMut(<<args[1], args[2]>>)
    \o ImplFromIntoForStruct(args)
    \o ImplInnerRefer(args)

\* The expansion of `macro!(args)`.
Expand(macro, args) ==
    CASE macro = "impl_as_ref" -> ImplAsRef(args)
      [] macro = "impl_as_mut" -> ImplAsMut(args)
      [] macro = "impl_as_mut_and_ref" -> ImplAsMutAndRef(args)
      [] macro = "impl_as_ptr" -> ImplAsPtr(args)
      [] macro = "impl_as_ptr_mut" -> ImplAsPtrMut(args)
      [] macro = "impl_as_bundle" -> ImplAsBundle(args)
      [] macro = "impl_as_bundle_many" -> ImplAsBundleMany(args)
      [] macro = "impl_from_into_for_enum" -> ImplFromIntoForEnum(args)
      [] macro = "impl_from_into_for_struct" -> ImplFromIntoForStruct(args)
      [] macro = "impl_inner_copy" -> ImplInnerCopy(args)
      [] macro = "impl_inner_refer" -> ImplInnerRefer(args)
      [] macro = "impl_struct_wrapper" -> ImplStructWrapper(args)

\* How many of the items are `impl trait<param> for self`.
Count(items, trait, self, param) ==
    Cardinality({k \in 1..Len(items) :
        /\ items[k].trait = trait
        /\ items[k].self = self
        /\ items[k].param = param})

\* The declarations the crate's user writes: a wrapper type, or a wrapper
\* and a target, or a wrapper, a target and a field of the wrapper.
DeclWrappers == {"Foo", "Baz"}
DeclForms ==
    {<<t>> : t \in DeclWrappers}
    \cup {<<t, "Bar">> : t \in DeclWrappers}
    \cup {<<t, "Bar", "inner">> : t \in DeclWrappers}
PairForms == {<<t, "Bar">> : t \in DeclWrappers}
TypeLists == {<<>>, <<"Foo">>, <<"Foo", "Baz">>}

BagOf(items) ==
    [x \in {items[k] : k \in 1..Len(items)} |->
        Cardinality({k \in 1..Len(items) : items[k] = x})]

Invoke(macro, args) ==
    /\ impls' = impls (+) BagOf(Expand(macro, args))
    /\ last' = [macro |-> macro, args |-> args,
                emitted |-> Expand(macro, args), n |-> last.n + 1]
    /\ UNCHANGED <<sliceVars, convVars, ptrVars, numVars>>

\* impl_as_ref!(..), impl_as_mut!(..), impl_as_mut_and_ref!(..),
\* impl_as_ptr!(..), impl_as_ptr_mut!(..): one capability
InvokeSingle ==
    \E m \in {"impl_as_ref", "impl_as_mut", "impl_as_mut_and_ref",
              "impl_as_ptr", "impl_as_ptr_mut"} :
        \E args \in DeclForms :
            /\ last.n < MaxInvocations
            /\ Invoke(m, args)

\* impl_as_bundle!(..)
InvokeBundle ==
    \E args \in DeclForms \cup {<<>>} :
        /\ last.n < MaxInvocations
        /\ Invoke("impl_as_bundle", args)

\* impl_as_bundle_many!(..)
InvokeBundleMany ==
    \E types \in TypeLists :
        /\ last.n < MaxInvocations
        /\ Invoke("impl_as_bundle_many", types)

\* the two-token macros of wrap.rs
InvokeWrap ==
    \E m \in {"impl_from_into_for_enum", "impl_from_into_for_struct",
              "impl_inner_copy", "impl_inner_refer", "impl_struct_wrapper"} :
        \E args \in PairForms :
            /\ last.n < MaxInvocations
            /\ Invoke(m, args)

InitDerive ==
    /\ impls = EmptyBag
    /\ last = [macro |-> "none", args |-> <<>>, emitted |-> <<>>, n |-> 0]
    /\ IdleSlice /\ IdleConv /\ IdlePtr /\ IdleNum

NextDerive == InvokeSingle \/ InvokeBundle \/ InvokeBundleMany \/ InvokeWrap

SpecDerive == InitDerive /\ [][NextDerive]_vars

\* The target a declaration names: the wrapper itself in the one-token form.
DeclTarget(args) == IF Len(args) = 1 THEN args[1] ELSE args[2]

BundleTraits == {"AsRef", "AsMut", "AsPtr", "AsPtrMut"}

\* C8: in each of its three declaration forms impl_as_bundle emits exactly
\* one impl of each of AsRef, AsMut, AsPtr and AsPtrMut over the declared
\* target for the wrapper (so impl_as_ptr_mut emits AsPtrMut in each form).
C8_BundleExactlyOnce ==
    last.macro = "impl_as_bundle" /\ last.args # <<>> =>
        \A tr \in BundleTraits :
            Count(last.emitted, tr, last.args[1], DeclTarget(last.args)) = 1

(***************************************************************************)
(*        convert.rs / wrap.rs: pointer views and inner access             *)
(*                                                                         *)
(* Memory is an array of cells; a value of a struct type occupies one cell *)
(* per field, in declaration order (#[repr(C)]), and a reference or raw    *)
(* pointer is the address of the first cell of what it designates.         *)
(***************************************************************************)

\* The number of cells of the memory, and the number of fields that lie
\* before `inner` in the padded wrapper.
MemSize == 4
PadCells == 1

Addrs == 0..(MemSize - 1)
\* The content of a live cell, and of a cell no live value occupies.
CellVals == {1, 2}
Dead == 0

\* The wrapper types:
\*   Foo      convert.rs tests:  struct Foo { v: usize }
\*   Wrap     wrap.rs, impl_struct_wrapper's example:  struct Foo { inner: Bar }
\*   FooCopy  wrap.rs tests:  struct FooCopy { inner: usize }
\*   Padded   the example of impl_as_ptr_mut, struct Foo { inner: Bar }, with
\*            fields declared before `inner`
\*   PaddedCopy  the example of impl_inner_copy, struct Foo { inner: Bar },
\*            with fields declared before `inner`
PtrTypes == {"Foo", "Wrap", "FooCopy", "Padded", "PaddedCopy"}

\* The fields of each type, in declaration order, each with its type.
Fields(ty) ==
    CASE ty = "Foo" -> <<[name |-> "v", ty |-> "usize"]>>
      [] ty = "Wrap" -> <<[name |-> "inner", ty |-> "Bar"]>>
      [] ty = "FooCopy" -> <<[name |-> "inner", ty |-> "usize"]>>
      [] ty = "Padded" -> [k \in 1..PadCells |-> [name |-> "pad", ty |-> "u64"]]
                          \o <<[name |-> "inner", ty |-> "Bar"]>>
      [] ty = "PaddedCopy" -> [k \in 1..PadCells |-> [name |-> "pad", ty |-> "u64"]]
                              \o <<[name |-> "inner", ty |-> "Bar"]>>

\* The macro invocations that follow each type's declaration.
TypeDecls(ty) ==
    CASE ty = "Foo" ->
           <<[macro |-> "impl_as_ref", args |-> <<"Foo">>],
             [macro |-> "impl_as_ref", args |-> <<"Foo", "usize", "v">>],
             [macro |-> "impl_as_ptr", args |-> <<"Foo">>],
             [macro |-> "impl_as_ptr", args |-> <<"Foo", "usize">>],
             [macro |-> "impl_as_ptr_mut", args |-> <<"Foo">>]>>
      [] ty = "Wrap" ->
           <<[macro |-> "impl_struct_wrapper", args |-> <<"Wrap", "Bar">>]>>
      [] ty = "FooCopy" ->
           <<[macro |-> "impl_inner_copy", args |-> <<"FooCopy", "usize">>]>>
      [] ty = "Padded" ->
           <<[macro |-> "impl_as_ref", args |-> <<"Padded">>],
             [macro |-> "impl_as_ref", args |-> <<"Padded", "Bar", "inner">>],
             [macro |-> "impl_as_ptr", args |-> <<"Padded">>],
             [macro |-> "impl_as_ptr", args |-> <<"Padded", "Bar">>],
             [macro |-> "impl_as_ptr_mut", args |-> <<"Padded">>],
             [macro |-> "impl_as_ptr_mut", args |-> <<"Padded", "Bar">>],
             [macro |-> "impl_inner_refer", args |-> <<"Padded", "Bar">>]>>
      [] ty = "PaddedCopy" ->
           <<[macro |-> "impl_inner_copy", args |-> <<"PaddedCopy", "Bar">>]>>

RECURSIVE ExpandAll(_)
ExpandAll(decls) ==
    IF decls = <<>> THEN <<>>
    ELSE Expand(Head(decls).macro, Head(decls).args) \o ExpandAll(Tail(decls))

\* The impl items attached to a type.
ImplsOf(ty) == ExpandAll(TypeDecls(ty))

\* Whether `impl trait<param> for ty` is attached (and, with it, the
\* supertrait the trait's declaration asks for).
Has(ty, trait, param) ==
    /\ Count(ImplsOf(ty), trait, ty, param) >= 1
    /\ trait = "AsPtr" => Count(ImplsOf(ty), "AsRef", ty, param) >= 1
    /\ trait = "AsPtrMut" =>
           /\ Count(ImplsOf(ty), "AsPtr", ty, param) >= 1
           /\ Count(ImplsOf(ty), "AsRef", ty, param) >= 1

BodyOf(ty, trait, param) ==
    LET items == ImplsOf(ty)
        k == CHOOSE k \in 1..Len(items) :
                 /\ items[k].trait = trait
                 /\ items[k].self = ty
                 /\ items[k].param = param
    IN  items[k].body

\* The targets a trait is attached over.
Params(ty, trait) == {p \in {ty, "usize", "Bar"} : Has(ty, trait, p)}

\* The number of cells of a value of type t.
Size(t) == IF t \in PtrTypes THEN Len(Fields(t)) ELSE 1

\* The offset of field f in a value of type ty.
Offset(ty, f) == (CHOOSE k \in 1..Len(Fields(ty)) : Fields(ty)[k].name = f) - 1

\* A borrow-access that returns the wrapper's own address for every target.
AsRefOfSelf(ty, param, self) == self
\* <ty as AsRef<param>>::as_ref(&self), self being the value's address:
\* `self` in the one-token form, `&self.$Expr` in the three-token form.
AsRef(ty, param, self) ==
    LET b == BodyOf(ty, "AsRef", param)
    IN  CASE b.kind = "self" -> self
          [] b.kind = "field" -> self + Offset(ty, b.field)
          [] OTHER -> -1

\* AsPtr::as_ptr's default body: AsRef::<T>::as_ref(self) as *const T
AsPtr(ty, param, self) == AsRef(ty, param, self)

\* AsPtrMut::as_ptr_mut's default body: AsPtr::<T>::as_ptr(self) as *mut T
AsPtrMut(ty, param, self) == AsPtr(ty, param, self)

\* A forwarding that casts the address of the borrow itself.
AsPtrOfBorrowItself(ty, param, slot, m) == slot
\* impl AsPtr<U> for &T: the default body with Self = &T, where as_ref on
\* &T is T's as_ref on the borrowed value.  slot is the address of the
\* borrow and m[slot] the address it holds.
AsPtrOfBorrow(ty, param, slot, m) == AsRef(ty, param, m[slot])

\* impl AsPtrMut<U> for &T: the default body over the as_ptr of &T
AsPtrMutOfBorrow(ty, param, slot, m) == AsPtrOfBorrow(ty, param, slot, m)

\* impl_inner_refer: fn inner(&self) -> &$Inner { &self.inner }
Inner(ty, self) == self + Offset(ty, "inner")
\* impl_inner_refer: fn inner_mut(&mut self) -> &mut $Inner { &mut self.inner }
InnerMut(ty, self) == self + Offset(ty, "inner")
\* A by-copy accessor that copies the first field of the wrapper.
InnerCopyOfFirst(ty, self, m) == m[self]
\* impl_inner_copy: fn inner(&self) -> $Inner { self.inner }
InnerCopy(ty, self, m) == m[self + Offset(ty, "inner")]

\* The cells of the n-cell value at address a.
Load(m, a, n) == [k \in 1..n |-> m[a + k - 1]]
\* The memory with the value x stored at address a.
Store(m, a, x) ==
    [b \in DOMAIN m |-> IF b >= a /\ b < a + Len(x) THEN x[b - a + 1] ELSE m[b]]

\* Whether the n cells at address a lie in the wrapper.
InWrapper(a, n) == a >= w.base /\ a + n <= w.base + Size(w.ty)

WrapperCells == Load(mem, w.base, Size(w.ty))

\* The values of type t.
ValuesOf(t) == [1..Size(t) -> CellVals]

\* Where a value of type ty holds the target param: at its own address when
\* the target is the type itself, else at its field of that type.
DeclaredOffset(ty, param) ==
    IF param = ty THEN 0
    ELSE (CHOOSE k \in 1..Len(Fields(ty)) : Fields(ty)[k].ty = param) - 1

Ret(op, param, via, slot, addr, off, val) ==
    [op |-> op, param |-> param, via |-> via, slot |-> slot,
     addr |-> addr, off |-> off, val |-> val]

NoRet == Ret("none", "", "", -1, -1, -1, <<>>)
NoWrite == [kind |-> "none", off |-> -1, val |-> <<>>]

\* An operation that leaves the memory as it is.
Returns(r) ==
    /\ ret' = r
    /\ pre' = WrapperCells
    /\ UNCHANGED <<mem, w, lastW, seen, sliceVars, convVars, deriveVars, numVars>>

\* w.as_ptr(), on the value
AsPtrCall ==
    \E p \in Params(w.ty, "AsPtr") :
        /\ w.ty \in PtrTypes
        /\ Returns(Ret("as_ptr", p, "value", -1, AsPtr(w.ty, p, w.base),
                       DeclaredOffset(w.ty, p), <<>>))

\* w.as_ptr_mut(), on the value
AsPtrMutCall ==
    \E p \in Params(w.ty, "AsPtrMut") :
        /\ w.ty \in PtrTypes
        /\ Returns(Ret("as_ptr_mut", p, "value", -1, AsPtrMut(w.ty, p, w.base),
                       DeclaredOffset(w.ty, p), <<>>))

\* The cells outside the wrapper: where a borrow of it can live.
FreeSlots == {a \in Addrs : a < w.base \/ a >= w.base + Size(w.ty)}

\* (&w).as_ptr(), as in read_ptr(&f): the borrow lives in a slot of the
\* callee's frame for the time of the call.
AsPtrBorrowCall ==
    \E p \in Params(w.ty, "AsPtr"), slot \in FreeSlots :
        /\ w.ty \in PtrTypes
        /\ Returns(Ret("as_ptr", p, "borrow", slot,
                       AsPtrOfBorrow(w.ty, p, slot, [mem EXCEPT ![slot] = w.base]),
                       DeclaredOffset(w.ty, p), <<>>))

\* (&w).as_ptr_mut(), as in write_ptr_mut(&f)
AsPtrMutBorrowCall ==
    \E p \in Params(w.ty, "AsPtrMut"), slot \in FreeSlots :
        /\ w.ty \in PtrTypes
        /\ Returns(Ret("as_ptr_mut", p, "borrow", slot,
                       AsPtrMutOfBorrow(w.ty, p, slot, [mem EXCEPT ![slot] = w.base]),
                       DeclaredOffset(w.ty, p), <<>>))

\* The memory after std::ptr::write(ptr, x) at address a, ptr being what
\* as_ptr_mut returned.  as_ptr_mut takes &self and casts the *const T of
\* as_ptr to *mut T, so the pointer carries no permission to write and the
\* write is undefined behaviour: the set of outcomes.  A build performs the
\* store or drops it.
WriteThroughShared(m, a, x) == {Store(m, a, x), m}

\* The values a read may yield for each cell, after x is written through the
\* pointer of as_ptr_mut at offset off.  The value was never borrowed mutably
\* for the write, so a build need not take it into account: what a cell
\* could be read as before stays possible, and x comes on top.
SeenAfterShared(sn, off, x) ==
    [k \in 1..Len(sn) |->
        IF k > off /\ k <= off + Len(x) THEN sn[k] \cup {x[k - off]} ELSE sn[k]]

\* std::ptr::write(ptr, x) through the pointer as_ptr_mut just returned.
\* The caller answers for the pointer designating live memory of the wrapper
\* and for being the only writer.
WritePtr ==
    \E x \in ValuesOf(ret.param) :
        \E m \in WriteThroughShared(mem, ret.addr, x) :
            /\ ret.op = "as_ptr_mut"
            /\ InWrapper(ret.addr, Size(ret.param))
            /\ mem' = m
            /\ seen' = SeenAfterShared(seen, ret.addr - w.base, x)
            /\ lastW' = [kind |-> "ptr", off |-> ret.off, val |-> x]
            /\ ret' = Ret("write", ret.param, ret.via, -1, ret.addr, ret.off, x)
            /\ pre' = WrapperCells
            /\ UNCHANGED <<w, sliceVars, convVars, deriveVars, numVars>>

\* What a read of the n cells at offset off of the wrapper may yield.  A
\* build decides for each read, and for each cell of it, on its own: a field
\* read in place, *inner() and a read through a pointer of the same run can
\* disagree, and any of them can return what an earlier write through
\* as_ptr_mut stored.
ReadValues(sn, off, n) ==
    {v \in [1..n -> CellVals] : \A k \in 1..n : v[k] \in sn[off + k]}

\* std::ptr::read(ptr) through the pointer as_ptr or as_ptr_mut returned
ReadPtr ==
    /\ ret.op \in {"as_ptr", "as_ptr_mut"}
    /\ InWrapper(ret.addr, Size(ret.param))
    /\ \E v \in ReadValues(seen, ret.addr - w.base, Size(ret.param)) :
           Returns(Ret("read", ret.param, ret.via, -1, ret.addr, ret.off, v))

\* *w.inner(): the by-reference accessor, and the value it designates
InnerCall ==
    \E p \in Params(w.ty, "InnerRefer") :
        \E v \in ReadValues(seen, Inner(w.ty, w.base) - w.base, Size(p)) :
            /\ w.ty \in PtrTypes
            /\ Returns(Ret("inner", p, "value", -1, Inner(w.ty, w.base),
                           Offset(w.ty, "inner"), v))

\* The values a read may yield for each cell, after x is written through
\* &mut at offset off: the write is a defined store, every later read of the
\* cells it covers is ordered after it; the other cells stay as they were.
SeenAfter(sn, off, x) ==
    [k \in 1..Len(sn) |-> IF k > off /\ k <= off + Len(x) THEN {x[k - off]} ELSE sn[k]]

\* *w.inner_mut() = x
InnerMutWrite ==
    \E p \in Params(w.ty, "InnerRefer") : \E x \in ValuesOf(p) :
        /\ w.ty \in PtrTypes
        /\ mem' = Store(mem, InnerMut(w.ty, w.base), x)
        /\ lastW' = [kind |-> "inner_mut", off |-> Offset(w.ty, "inner"), val |-> x]
        /\ ret' = Ret("inner_mut", p, "value", -1, InnerMut(w.ty, w.base),
                      Offset(w.ty, "inner"), x)
        /\ pre' = WrapperCells
        /\ seen' = SeenAfter(seen, InnerMut(w.ty, w.base) - w.base, x)
        /\ UNCHANGED <<w, sliceVars, convVars, deriveVars, numVars>>

\* w.inner(): the by-copy accessor
InnerCopyCall ==
    \E p \in Params(w.ty, "InnerCopy") :
        /\ w.ty \in PtrTypes
        /\ Returns(Ret("inner_copy", p, "value", -1, -1, Offset(w.ty, "inner"),
                       <<InnerCopy(w.ty, w.base, mem)>>))

\* w.v / w.inner: the caller reads a field in place, as the tests do
FieldRead ==
    \E k \in 1..Len(Fields(w.ty)) :
        \E v \in ReadValues(seen, k - 1, 1) :
            /\ w.ty \in PtrTypes
            /\ Returns(Ret("field", Fields(w.ty)[k].ty, "value", -1, w.base + k - 1,
                           k - 1, v))

\* The caller moves the wrapper (as read_ptr(f) does): its cells go to
\* another address, and what it left is dead.  The move is a read of the
\* whole value: after a write through as_ptr_mut a build moves, for each
\* cell, any of the values a read may yield, and goes on reading the moved
\* value the same way.
MoveWrapper ==
    \E nb \in Addrs :
        \E c \in ReadValues(seen, 0, Size(w.ty)) :
            /\ w.ty \in PtrTypes
            /\ nb # w.base /\ nb + Size(w.ty) <= MemSize
            /\ mem' = [a \in Addrs |->
                         IF a >= nb /\ a < nb + Size(w.ty)
                         THEN c[a - nb + 1] ELSE Dead]
            /\ w' = [w EXCEPT !.base = nb]
            /\ ret' = Ret("move", w.ty, "value", -1, nb, 0, <<>>)
            /\ pre' = WrapperCells
            /\ UNCHANGED <<lastW, seen, sliceVars, convVars, deriveVars, numVars>>

InitPtr ==
    /\ \E ty \in PtrTypes, base \in Addrs :
       \E x \in ValuesOf(ty) :
        /\ base + Size(ty) <= MemSize
        /\ w = [ty |-> ty, base |-> base]
        /\ mem = [a \in Addrs |->
                    IF a >= base /\ a < base + Size(ty) THEN x[a - base + 1] ELSE Dead]
        /\ pre = Load(mem, base, Size(ty))
        /\ seen = [k \in 1..Size(ty) |-> {x[k]}]
    /\ ret = NoRet
    /\ lastW = NoWrite
    /\ IdleSlice /\ IdleConv /\ IdleDerive /\ IdleNum

NextPtr ==
    \/ AsPtrCall \/ AsPtrMutCall \/ AsPtrBorrowCall \/ AsPtrMutBorrowCall
    \/ WritePtr \/ ReadPtr
    \/ InnerCall \/ InnerMutWrite \/ InnerCopyCall \/ FieldRead
    \/ MoveWrapper

SpecPtr == InitPtr /\ [][NextPtr]_vars

PointerOps == {"as_ptr", "as_ptr_mut"}

\* C5: as_ptr and as_ptr_mut of a wrapper return, for every target attached
\* to it, one and the same address, the address of what as_ref yields: the
\* wrapper itself for the identity attachment and the field for a field
\* attachment.  Neither call changes the wrapper.
C5_AddressIdentity ==
    /\ ret.op \in PointerOps =>
           /\ ret.addr = w.base + DeclaredOffset(w.ty, ret.param)
           /\ ret.addr = AsRef(w.ty, ret.param, w.base)
           /\ WrapperCells = pre
    /\ w.ty \in PtrTypes =>
           \A p \in Params(w.ty, "AsPtrMut") :
               AsPtrMut(w.ty, p, w.base) = AsPtr(w.ty, p, w.base)

\* as_ptr_mut on a padded wrapper, not at address 0, returned the address of
\* its field, which is not the wrapper's own address.
C5_Witness ==
    /\ w.ty = "Padded" /\ w.base > 0
    /\ ret.op = "as_ptr_mut" /\ ret.param = "Bar" /\ ret.via = "value"
    /\ ret.addr = w.base + PadCells

ReadOps == {"read", "inner", "inner_copy", "field"}

\* C6: when the most recent write into the wrapper went through the address
\* as_ptr_mut returned, a read through as_ptr, through an inner accessor or
\* of a field in place observes the written value in every cell the write
\* covered.  The code does not keep this: the write goes through a pointer
\* cast from &self, and a build may drop the store or read the field as it
\* was before.
C6_WriteThrough ==
    ret.op \in ReadOps /\ lastW.kind = "ptr" =>
        \A k \in 1..Len(ret.val) :
            LET o == ret.off + k - 1
            IN  o >= lastW.off /\ o < lastW.off + Len(lastW.val) =>
                    ret.val[k] = lastW.val[o - lastW.off + 1]

\* C7: as_ptr and as_ptr_mut on a borrow of a value return the address the
\* same operation returns on the value itself: an address inside the value,
\* not the address of the borrow.
C7_Forwarding ==
    ret.op \in PointerOps /\ ret.via = "borrow" =>
        /\ ret.op = "as_ptr" => ret.addr = AsPtr(w.ty, ret.param, w.base)
        /\ ret.op = "as_ptr_mut" => ret.addr = AsPtrMut(w.ty, ret.param, w.base)
        /\ InWrapper(ret.addr, Size(ret.param))
        /\ ret.addr # ret.slot

\* as_ptr_mut on a borrow that lives below a padded wrapper returned the
\* address of the wrapper's field.
C7_Witness ==
    /\ w.ty = "Padded"
    /\ ret.op = "as_ptr_mut" /\ ret.via = "borrow" /\ ret.param = "Bar"
    /\ ret.slot < w.base
    /\ ret.addr = w.base + PadCells

StructWrapperTraits == {"AsRef", "AsPtr", "AsPtrMut", "From", "Into", "InnerRefer"}

\* C9: impl_struct_wrapper!(Wrap, Bar) attaches borrow-access, both pointer
\* views, both conversions and the by-reference inner access, and as_ref,
\* inner, inner_mut, as_ptr and as_ptr_mut all designate the field w.inner.
C9_StructWrapper ==
    w.ty = "Wrap" =>
        /\ \A tr \in StructWrapperTraits : Count(ImplsOf("Wrap"), tr, "Wrap", "Bar") = 1
        /\ LET loc == w.base + Offset("Wrap", "inner")
           IN  /\ AsRef("Wrap", "Bar", w.base) = loc
               /\ Inner("Wrap", w.base) = loc
               /\ InnerMut("Wrap", w.base) = loc
               /\ AsPtr("Wrap", "Bar", w.base) = loc
               /\ AsPtrMut("Wrap", "Bar", w.base) = loc
               /\ ret.op \in PointerOps \cup {"inner", "inner_mut"} => ret.addr = loc

\* A wrapper derived with impl_struct_wrapper was written through inner_mut
\* and then handed out its mutable pointer view, at its field.
C9_Witness ==
    /\ w.ty = "Wrap" /\ w.base > 0
    /\ lastW.kind = "inner_mut"
    /\ ret.op = "as_ptr_mut" /\ ret.param = "Bar"
    /\ ret.addr = w.base

\* C10: the by-copy inner() returns the value the field named inner was
\* constructed with, the only value a read of that field may yield, and the
\* by-reference inner() the address of that field; neither changes the
\* wrapper, and when the most recent write went through inner_mut the
\* by-reference inner() yields the written value.
C10_InnerAccess ==
    ret.op \in {"inner_copy", "inner"} =>
        \E k \in 1..Len(Fields(w.ty)) :
            /\ Fields(w.ty)[k].name = "inner"
            /\ WrapperCells = pre
            /\ ret.op = "inner_copy" => Len(ret.val) = 1 /\ seen[k] = {ret.val[1]}
            /\ ret.op = "inner" =>
                   /\ ret.addr = w.base + k - 1
                   /\ lastW.kind = "inner_mut" => ret.val = lastW.val

\* After a write through inner_mut, inner() of a padded wrapper returned the
\* address of the field and the written value, which the cell before the
\* field does not hold.
C10_Witness ==
    /\ w.ty = "Padded"
    /\ lastW.kind = "inner_mut"
    /\ ret.op = "inner" /\ ret.addr = w.base + PadCells
    /\ ret.val = lastW.val
    /\ mem[w.base] # ret.val[1]

(***************************************************************************)
(*                        num.rs: alignment                                *)
(*                                                                         *)
(* The two traits are implemented, by the same bodies, for the signed and  *)
(* unsigned integers of every width; i8 and u8 stand here at their own     *)
(* width.  An overflowing + or - panics in a build with overflow checks    *)
(* (debug) and wraps in one without (release); a remainder by zero, or of  *)
(* the least value by -1, panics in both.                                  *)
(***************************************************************************)

\* The width of i8 and u8.
Bits == 8

RECURSIVE Pow2Rec(_)
Pow2Rec(n) == IF n = 0 THEN 1 ELSE 2 * Pow2Rec(n - 1)

NumTypes == {"i8", "u8"}
Builds == {"debug", "release"}

\* $Type::MIN and $Type::MAX
Lo(ty) == IF ty = "i8" THEN -Pow2Rec(Bits - 1) ELSE 0
Hi(ty) == IF ty = "i8" THEN Pow2Rec(Bits - 1) - 1 ELSE Pow2Rec(Bits) - 1
ValuesOfNum(ty) == Lo(ty)..Hi(ty)

\* The value of the type that is congruent to x modulo 2^Bits.
WrapTo(ty, x) == ((x - Lo(ty)) % Pow2Rec(Bits)) + Lo(ty)

\* The result of a step: a value, whether the step panicked, and whether an
\* addition or subtraction overflowed on the way.
Val(x, ovf) == [panic |-> FALSE, ovf |-> ovf, val |-> x]
Panic(ovf) == [panic |-> TRUE, ovf |-> ovf, val |-> 0]

\* The exact result x of a + or - on the type.
Arith(ty, build, x) ==
    IF x >= Lo(ty) /\ x <= Hi(ty) THEN Val(x, FALSE)
    ELSE IF build = "debug" THEN Panic(TRUE)
    ELSE Val(WrapTo(ty, x), TRUE)

Abs(x) == IF x < 0 THEN -x ELSE x

\* a % b on the type: the remainder of the division that truncates towards
\* zero, which has the sign of a.
Rem(ty, a, b) ==
    IF b = 0 THEN Panic(FALSE)
    ELSE IF a = Lo(ty) /\ b = -1 THEN Panic(FALSE)
    ELSE IF a >= 0 THEN Val(a % Abs(b), FALSE)
    ELSE Val(-((-a) % Abs(b)), FALSE)

\* impl_align_downwards: self - (self % align)
AlignDownwards(ty, build, self, align) ==
    LET r == Rem(ty, self, align)
    IN  IF r.panic THEN r ELSE Arith(ty, build, self - r.val)

\* impl_align_upwards:
\*   if (self % align) != 0 { self + align - (self % align) } else { self }
AlignUpwards(ty, build, self, align) ==
    LET r == Rem(ty, self, align)
    IN  IF r.panic THEN r
        ELSE IF r.val # 0 THEN
            LET s == Arith(ty, build, self + align)
            IN  IF s.panic THEN s
                ELSE LET d == Arith(ty, build, s.val - r.val)
                     IN  [d EXCEPT !.ovf = s.ovf \/ d.ovf]
        ELSE Val(self, FALSE)

\* The call's operands, before the call and with its result.
NumArgs(ty, build, v, align) ==
    [op |-> "none", ty |-> ty, build |-> build, v |-> v, align |-> align,
     panic |-> FALSE, ovf |-> FALSE, val |-> 0]

NumDone(op, out) ==
    /\ num' = [num EXCEPT !.op = op, !.panic = out.panic, !.ovf = out.ovf,
                          !.val = out.val]
    /\ UNCHANGED <<sliceVars, convVars, deriveVars, ptrVars>>

\* num.v.align_downwards(num.align)
AlignDownwardsCall ==
    /\ num.op = "none"
    /\ NumDone("align_downwards", AlignDownwards(num.ty, num.build, num.v, num.align))

\* num.v.align_upwards(num.align)
AlignUpwardsCall ==
    /\ num.op = "none"
    /\ NumDone("align_upwards", AlignUpwards(num.ty, num.build, num.v, num.align))

\* The caller's operands: any two values of one of the types, in either build.
InitNum ==
    /\ \E ty \in NumTypes, build \in Builds :
           \E v \in ValuesOfNum(ty), align \in ValuesOfNum(ty) :
               num = NumArgs(ty, build, v, align)
    /\ IdleSlice /\ IdleConv /\ IdleDerive /\ IdlePtr

NextNum == AlignDownwardsCall \/ AlignUpwardsCall

SpecNum == InitNum /\ [][NextNum]_vars

\* The least multiple of align that is at least v, for align > 0.
CeilMultiple(v, align) == v + ((align - (v % align)) % align)

\* C11: for every value v of a signed or unsigned type and every align > 0,
\* align_downwards returns a multiple r of align with r <= v and
\* v - r < align.
C11_AlignsDownwards ==
    num.op = "align_downwards" /\ num.align > 0 =>
        /\ ~num.panic
        /\ num.val % num.align = 0
        /\ num.val <= num.v
        /\ num.v - num.val < num.align

\* C12: for every value v of a signed or unsigned type and every align > 0
\* for which the least multiple of align that is at least v is a value of the
\* type, align_upwards returns that multiple, without arithmetic overflow
\* (and so returns v when v is a multiple of align).
C12_AlignsUpwards ==
    /\ num.op = "align_upwards"
    /\ num.align > 0
    /\ CeilMultiple(num.v, num.align) <= Hi(num.ty)
    => /\ ~num.panic
       /\ ~num.ovf
       /\ num.val = CeilMultiple(num.v, num.align)

====
